---- MODULE Spec2Model ----
(***************************************************************************)
(* A model of torchdp.PrivacyEngine (src/torchdp/privacy_engine.py): the   *)
(* attach/detach lifecycle on optimizer objects, the virtual batching      *)
(* protocol, the per-step noise injection and the privacy accountant.      *)
(*                                                                         *)
(* The clipping collaborator (PerSampleGradientClipper), the architecture  *)
(* validator and the RDP primitives (privacy_analysis) are other modules   *)
(* of the package; they are modelled from their interface contracts.       *)
(***************************************************************************)
EXTENDS Integers, Sequences, FiniteSets, TLC

\* ------------------------------------------------------------------ bounds
MaxSteps == 2        \* step() is not started once self.steps has reached this
MaxAttach == 2       \* successful attach() calls (collaborators constructed)
MaxAccum == 3        \* per-sample gradients fed to a collaborator between drains
RecursionLimit == 2  \* depth of nested optimizer-step calls before RecursionError

\* ------------------------------------------------------- environment values
Optimizers == {"o1", "o2"}
NoClosure == "None"
ArgLists == {<<>>, <<"c">>}          \* optimizer.step() and optimizer.step(c)
\* torch.device objects are named by their type; "str:cuda" is the Python
\* string "cuda", which to() accepts as well
TorchDevices == {"cpu", "cuda"}
Devices == {"cpu", "str:cuda"}       \* the devices to() is given
NoiseDraws == {-1, 1}                \* a standard normal draw, abstracted
Params == {1, 2, 3}                  \* module.parameters(), in order
requires_grad == [p \in Params |-> p # 2]
Train == {p \in Params : requires_grad[p]}
Deltas == {5}                        \* target_delta = 10^-d, named by d

\* p is the TrainIndex(p)-th trainable parameter (position in zip, line 264)
TrainIndex(p) == Cardinality({q \in Train : q <= p})

\* ---------------------------------------------------------------- numbers
\* floats that can be inf or nan: [k |-> "fin"|"inf"|"nan", v |-> Int]
Fin(n) == [k |-> "fin", v |-> n]
Inf == [k |-> "inf", v |-> 0]
NaN == [k |-> "nan", v |-> 0]

\* float * int as IEEE arithmetic does it (inf * 0 = nan)
FMul(x, n) ==
  IF x.k = "fin" THEN Fin(x.v * n)
  ELSE IF x.k = "inf" /\ n # 0 THEN Inf
  ELSE NaN

FAdd(x, n) == IF x.k = "fin" THEN Fin(x.v + n) ELSE x

\* x < y on floats; every comparison with nan is false
FLess(x, y) ==
  /\ x.k # "nan" /\ y.k # "nan"
  /\ \/ x.k = "fin" /\ y.k = "inf"
     \/ x.k = "fin" /\ y.k = "fin" /\ x.v < y.v

\* ------------------------------------------------ RDP primitives (tf_privacy)
\* compute_rdp(q, noise_multiplier, steps, orders): one RDP value per order,
\* in hundredths.  q is the sampling rate [num, den].  No noise: no privacy.
compute_rdp(q, noise_multiplier, n, orders) ==
  [i \in DOMAIN orders |->
     IF noise_multiplier = 0 THEN Inf
     ELSE Fin(((orders[i] * q.num * q.num * 100)
                 \div (2 * noise_multiplier * noise_multiplier * q.den * q.den)) * n)]

\* the epsilon each order implies: rdp + log(1/delta) / (order - 1)
EpsOf(orders, rdp, d) ==
  [i \in DOMAIN orders |-> FAdd(rdp[i], (d * 230) \div (orders[i] - 1))]

\* get_privacy_spent(orders, rdp, delta): the smallest epsilon and the lowest
\* order that achieves it
tf_get_privacy_spent(orders, rdp, d) ==
  LET eps == EpsOf(orders, rdp, d)
      ok == {i \in DOMAIN orders : eps[i].k # "nan"}
      best == {i \in ok : \A j \in ok : ~FLess(eps[j], eps[i])}
  IN IF best = {} THEN [eps |-> NaN, order |-> orders[1]]
     ELSE LET i == CHOOSE i \in best : \A j \in best : i <= j
          IN [eps |-> eps[i], order |-> orders[i]]

\* -------------------------------------------------------------------- state
VARIABLES
  self,       \* the PrivacyEngine's attributes
  optim,      \* the optimizer objects' attributes
  clipper,    \* the PerSampleGradientClipper object self.clipper refers to
  grad_sample,\* the parameters' pending per-sample gradients (p.grad_sample)
  fed,        \* history: samples given to the current clipper since the last step()
  completed,  \* history: number of step() calls that returned normally
  log         \* what the last call did (calls made, warnings, result)

vars == <<self, optim, clipper, grad_sample, fed, completed, log>>

\* the mutable program state as one value, threaded through the methods
St == [self |-> self, optim |-> optim, clipper |-> clipper,
       grad_sample |-> grad_sample, fed |-> fed, log |-> log]

\* grad holds the values written to p.grad during the call, if any: the
\* engine never reads a gradient it did not write in the same call
EmptyLog(op) ==
  [op |-> <<op>>, exc |-> "", warned |-> FALSE, clip_calls |-> 0, pre_calls |-> 0,
   draws |-> 0, noised |-> {}, noise_device |-> {}, engine_steps |-> 0,
   step_returns |-> 0, orig |-> <<>>, ret |-> <<>>, batch_size |-> -1, clip_values |-> <<>>,
   pre_noise |-> <<>>, grad |-> <<>>, before |-> <<>>]

\* self.clipper is None: no collaborator object
NoClipper ==
  [closed |-> 0, norm_clipper |-> [is_list |-> FALSE, v |-> <<>>],
   summed |-> <<>>, aggr_batch_size |-> 0]

Raise(st, e) == [st EXCEPT !.log.exc = e]

\* A 64-bit integer is [hi, lo]: hi the top 16 bits as a signed number, lo
\* the three lower 16-bit limbs; its value is hi * 2^48 + lo[1] * 2^32 + ...
Limb(bytes, i) == bytes[2 * i - 1] * 256 + bytes[2 * i]

\* int.from_bytes(bytes, byteorder="big", signed=signed) of 8 bytes
from_bytes(bytes, signed) ==
  LET top == Limb(bytes, 1)
  IN [hi |-> IF signed /\ top >= 32768 THEN top - 65536 ELSE top,
      lo |-> <<Limb(bytes, 2), Limb(bytes, 3), Limb(bytes, 4)>>]

\* what os.urandom(8) yields at construction
UrandomInit == <<0, 0, 0, 0, 0, 0, 0, 5>>

\* PrivacyEngine._set_seed; secure_seed is <<>> for None, <<s>> for a seed, and
\* urandom is the 8 bytes os.urandom(8) yields.  self.device.type exists on
\* a torch.device only.
_set_seed(st, secure_seed, urandom) ==
  LET given == secure_seed # <<>>
      seed == IF given THEN secure_seed[1] ELSE from_bytes(urandom, TRUE)
      s1 == [st EXCEPT !.log.warned = @ \/ given, !.self.secure_seed = seed]
  IN IF s1.self.device \notin TorchDevices THEN Raise(s1, "AttributeError")
     ELSE [s1 EXCEPT
             !.self.secure_generator =
                [seed |-> seed,
                 api |-> IF s1.self.device = "cpu" THEN "torch.random"
                         ELSE "torch.cuda"]]

\* PrivacyEngine.__init__: the engine's attributes, as the self field of the
\* state _set_seed(None) leaves
__init__(a, urandom) ==
  _set_seed(
   [log |-> EmptyLog("init"),
    self |->
    [steps |-> 0,
     module_valid |-> a.module_valid,
     alphas |-> a.alphas,
     device |-> a.device,
     batch_size |-> a.batch_size,
     sample_rate |-> [num |-> a.batch_size, den |-> a.sample_size],
     noise_multiplier |-> a.noise_multiplier,
     max_grad_norm |-> a.max_grad_norm,
     target_delta |-> a.target_delta,
     secure_seed |-> from_bytes(urandom, TRUE),
     secure_generator |-> [seed |-> from_bytes(urandom, TRUE), api |-> ""],
     clipper |-> 0,
     loss_reduction |-> a.loss_reduction,
     optimizer |-> "absent"]],
   <<>>, urandom).self

\* a torch.optim.Optimizer as constructed: step is the class's method
NewOptimizer ==
  [privacy_engine |-> "absent", step |-> <<>>, original_step |-> <<>>,
   virtual_step |-> FALSE]

\* the constructor arguments tried: a per-layer bound with every noise and
\* reduction setting, a flat bound, and a module the validator rejects
PerLayer == [is_list |-> TRUE, v |-> <<1, 2>>]
Flat == [is_list |-> FALSE, v |-> <<2>>]
Configs ==
  {[module_valid |-> TRUE, batch_size |-> 2, sample_size |-> 4,
    alphas |-> <<2, 3>>, noise_multiplier |-> nm, max_grad_norm |-> PerLayer,
    target_delta |-> 6, loss_reduction |-> lr, device |-> "cpu"] :
     nm \in {0, 1}, lr \in {"mean", "sum"}}
  \cup
  {[module_valid |-> v, batch_size |-> 2, sample_size |-> 4,
    alphas |-> <<2, 3>>, noise_multiplier |-> 1, max_grad_norm |-> Flat,
    target_delta |-> 6, loss_reduction |-> "mean", device |-> "cpu"] :
     v \in BOOLEAN}

Init ==
  /\ \E a \in Configs : self = __init__(a, UrandomInit)
  /\ optim = [o \in Optimizers |-> NewOptimizer]
  /\ clipper = NoClipper
  /\ grad_sample = <<>>
  /\ fed = <<>>
  /\ completed = 0
  /\ log = EmptyLog("init")

\* ------------------------------------------ the clipping collaborator
\* PerSampleGradientClipper(module, norm_clipper, batch_first)
NewClipper(norm_clipper) ==
  [closed |-> 0, norm_clipper |-> norm_clipper,
   summed |-> [i \in 1..Cardinality(Train) |-> 0], aggr_batch_size |-> 0]

\* the clip value of each trainable parameter, in order
Thresholds(norm_clipper) ==
  [i \in 1..Cardinality(Train) |->
     IF norm_clipper.is_list THEN norm_clipper.v[i] ELSE norm_clipper.v[1]]

Min(a, b) == IF a < b THEN a ELSE b

RECURSIVE ClipSum(_, _)
\* the sum of the samples, each clipped to bound c
ClipSum(samples, c) ==
  IF samples = <<>> THEN 0
  ELSE Min(Head(samples), c) + ClipSum(Tail(samples), c)

\* clipper.clip_and_accumulate(): fold the pending per-sample gradients into
\* the accumulator and discard them
clip_and_accumulate(st) ==
  LET th == Thresholds(st.clipper.norm_clipper)
      gs == st.grad_sample
  IN [st EXCEPT
        !.clipper.summed = [i \in DOMAIN @ |-> @[i] + ClipSum(gs, th[i])],
        !.clipper.aggr_batch_size = @ + Len(gs),
        !.grad_sample = <<>>,
        !.log.clip_calls = @ + 1]

\* clipper.pre_step(): hand the accumulated gradient to p.grad, report the
\* clip values and the accumulated batch size, and reset the accumulator
pre_step(st) ==
  LET cl == st.clipper
  IN [st EXCEPT
        !.log.grad = <<[p \in Train |-> [num |-> cl.summed[TrainIndex(p)], den |-> 1]]>>,
        !.clipper.summed = [i \in DOMAIN @ |-> 0],
        !.clipper.aggr_batch_size = 0,
        !.log.pre_calls = @ + 1,
        !.log.batch_size = cl.aggr_batch_size,
        !.log.clip_values = Thresholds(cl.norm_clipper),
        !.log.pre_noise = <<cl.summed>>]

\* clipper.close(): the collaborator is released, its hooks removed and its
\* accumulator dropped; gradients still pending stay on the parameters
close(st) ==
  [st EXCEPT
     !.clipper.closed = Min(@ + 1, 2),
     !.clipper.summed = [i \in DOMAIN @ |-> 0],
     !.clipper.aggr_batch_size = 0,
     !.fed = st.grad_sample]

\* ------------------------------------------------- PrivacyEngine methods
\* the trainable parameters in module order (line 263)
TrainSeq == [i \in 1..Cardinality(Train) |-> CHOOSE p \in Train : TrainIndex(p) = i]

\* _generate_noise drawing a tensor whatever noise_multiplier is
_generate_noise_always_drawing(slf, max_grad_norm, draw) ==
  [tensor |-> TRUE, v |-> draw * slf.noise_multiplier * max_grad_norm,
   device |-> slf.device]

\* PrivacyEngine._generate_noise: a tensor drawn from the engine's generator
\* on self.device, or the float 0.0; draw is the generator's standard normal
_generate_noise(slf, max_grad_norm, draw) ==
  IF slf.noise_multiplier > 0
  THEN [tensor |-> TRUE, v |-> draw * slf.noise_multiplier * max_grad_norm,
        device |-> slf.device]
  ELSE [tensor |-> FALSE, v |-> 0, device |-> ""]

\* grad + noise / d as a fraction; a zero denominator is a non-finite tensor
AddNoise(g, v, d) == [num |-> g.num * d + v * g.den, den |-> g.den * d]

RECURSIVE NoiseLoop(_, _, _, _)
\* PrivacyEngine.step, the loop over zip(params, clip_values)
NoiseLoop(st, ps, z, batch_size) ==
  IF ps = <<>> \/ Len(st.log.clip_values) < TrainIndex(Head(ps)) THEN st
  ELSE
    LET p == Head(ps)
        noise == _generate_noise(st.self, st.log.clip_values[TrainIndex(p)], z[p])
        mean == st.self.loss_reduction = "mean"
        drawn == [st EXCEPT
                    !.log.draws = IF noise.tensor THEN @ + 1 ELSE @,
                    !.log.noise_device =
                       IF noise.tensor THEN @ \cup {noise.device} ELSE @]
    IN IF mean /\ ~noise.tensor /\ batch_size = 0
       THEN Raise(drawn, "ZeroDivisionError")
       ELSE NoiseLoop(
              [drawn EXCEPT
                 !.log.grad[1][p] =
                    AddNoise(@, noise.v, IF mean THEN batch_size ELSE 1),
                 !.log.noised = @ \cup {p}],
              Tail(ps), z, batch_size)

\* step() scaling the noise by the configured batch_size instead of the
\* accumulated one
step_scaling_by_configured(st, z) ==
  LET s0 == [st EXCEPT !.self.steps = @ + 1, !.log.engine_steps = @ + 1,
                       !.fed = <<>>]
  IN IF s0.self.clipper = 0 THEN Raise(s0, "AttributeError")
     ELSE
       LET s1 == pre_step(clip_and_accumulate(s0))
           batch_size == s1.log.batch_size
       IN IF batch_size > s1.self.batch_size THEN Raise(s1, "ValueError")
          ELSE
            LET s2 == [s1 EXCEPT
                         !.log.warned = @ \/ batch_size < s1.self.batch_size]
                s3 == NoiseLoop(s2, TrainSeq, z, s1.self.batch_size)
            IN IF s3.log.exc # "" THEN s3
               ELSE [s3 EXCEPT !.log.step_returns = @ + 1]

\* step() with the noise loop run before the batch size is checked
step_noise_before_check(st, z) ==
  LET s0 == [st EXCEPT !.self.steps = @ + 1, !.log.engine_steps = @ + 1,
                       !.fed = <<>>]
  IN IF s0.self.clipper = 0 THEN Raise(s0, "AttributeError")
     ELSE
       LET s1 == pre_step(clip_and_accumulate(s0))
           batch_size == s1.log.batch_size
           s2 == [s1 EXCEPT
                    !.log.warned = @ \/ batch_size < s1.self.batch_size]
           s3 == NoiseLoop(s2, TrainSeq, z, batch_size)
       IN IF batch_size > s1.self.batch_size THEN Raise(s3, "ValueError")
          ELSE IF s3.log.exc # "" THEN s3
          ELSE [s3 EXCEPT !.log.step_returns = @ + 1]

\* step() rejecting a batch of exactly the configured size (>= for >)
step_rejects_full_batch(st, z) ==
  LET s0 == [st EXCEPT !.self.steps = @ + 1, !.log.engine_steps = @ + 1,
                       !.fed = <<>>]
  IN IF s0.self.clipper = 0 THEN Raise(s0, "AttributeError")
     ELSE
       LET s1 == pre_step(clip_and_accumulate(s0))
           batch_size == s1.log.batch_size
       IN IF batch_size >= s1.self.batch_size THEN Raise(s1, "ValueError")
          ELSE
            LET s2 == [s1 EXCEPT !.log.warned = TRUE]
                s3 == NoiseLoop(s2, TrainSeq, z, batch_size)
            IN IF s3.log.exc # "" THEN s3
               ELSE [s3 EXCEPT !.log.step_returns = @ + 1]

\* PrivacyEngine.step
step(st, z) ==
  LET s0 == [st EXCEPT !.self.steps = @ + 1, !.log.engine_steps = @ + 1,
                       !.fed = <<>>]
  IN IF s0.self.clipper = 0 THEN Raise(s0, "AttributeError")
     ELSE
       LET s1 == pre_step(clip_and_accumulate(s0))
           batch_size == s1.log.batch_size
       IN IF batch_size > s1.self.batch_size THEN Raise(s1, "ValueError")
          ELSE
            LET s2 == [s1 EXCEPT
                         !.log.warned = @ \/ batch_size < s1.self.batch_size]
                s3 == NoiseLoop(s2, TrainSeq, z, batch_size)
            IN IF s3.log.exc # "" THEN s3
               ELSE [s3 EXCEPT !.log.step_returns = @ + 1]

\* virtual_step() charging a step to the accountant
virtual_step_counting(st) ==
  IF st.self.clipper = 0 THEN Raise(st, "AttributeError")
  ELSE [clip_and_accumulate(st) EXCEPT !.self.steps = @ + 1]

\* virtual_step() draining the accumulator as step() does
virtual_step_draining(st) ==
  IF st.self.clipper = 0 THEN Raise(st, "AttributeError")
  ELSE pre_step(clip_and_accumulate(st))

\* PrivacyEngine.virtual_step
virtual_step(st) ==
  IF st.self.clipper = 0 THEN Raise(st, "AttributeError")
  ELSE clip_and_accumulate(st)

\* to() returning the engine without recording the device
to_ignoring_device(st, device) == [st EXCEPT !.log.ret = <<"self">>]

\* PrivacyEngine.to
to(st, device) == [st EXCEPT !.self.device = device, !.log.ret = <<"self">>]

\* PrivacyEngine.get_renyi_divergence
get_renyi_divergence(slf) ==
  compute_rdp(slf.sample_rate, slf.noise_multiplier, 1, slf.alphas)

\* the cumulative RDP without the composition over steps
cumulative_rdp_uncomposed(slf) ==
  [i \in DOMAIN slf.alphas |-> get_renyi_divergence(slf)[i]]

\* the cumulative RDP of line 222: get_renyi_divergence() * self.steps
cumulative_rdp(slf) ==
  [i \in DOMAIN slf.alphas |-> FMul(get_renyi_divergence(slf)[i], slf.steps)]

\* get_privacy_spent() keeping the caller's target_delta as the engine's
get_privacy_spent_storing_delta(st, target_delta) ==
  LET td == IF target_delta = <<>> THEN st.self.target_delta ELSE target_delta[1]
  IN [st EXCEPT
        !.self.target_delta = td,
        !.log.ret = <<tf_get_privacy_spent(st.self.alphas,
                                           cumulative_rdp(st.self), td)>>]

\* PrivacyEngine.get_privacy_spent; target_delta is <<>> for None
get_privacy_spent(st, target_delta) ==
  LET td == IF target_delta = <<>> THEN st.self.target_delta ELSE target_delta[1]
  IN [st EXCEPT
        !.log.ret = <<tf_get_privacy_spent(st.self.alphas,
                                           cumulative_rdp(st.self), td)>>]

\* ------------------------------------------------- optimizer step methods
\* A method value is <<function, bound arguments...>>: types.MethodType(f, o)
\* calls f with o placed before the caller's arguments.
MethodType(f, o) == Append(f, o)

\* optimizer.step as attribute lookup finds it: the instance attribute, or
\* the class's step bound to the optimizer
GetStep(st, o) ==
  IF st.optim[o].step = <<>> THEN <<"orig", o>> ELSE st.optim[o].step

RECURSIVE Call(_, _, _, _, _)
RECURSIVE dp_step(_, _, _, _, _)

\* dp_step(self, closure=None), lines 168-170
dp_step(slf, closure, st, z, fuel) ==
  IF st.optim[slf].privacy_engine # "engine" THEN Raise(st, "AttributeError")
  ELSE LET s1 == step(st, z)
       IN IF s1.log.exc # "" THEN s1
          ELSE Call(s1.optim[slf].original_step, <<closure>>, s1, z, fuel - 1)

\* call method m with args.  Both functions take (self, closure=None).
Call(m, args, st, z, fuel) ==
  IF m = <<>> THEN Raise(st, "AttributeError")
  ELSE IF fuel = 0 THEN Raise(st, "RecursionError")
  ELSE
    LET full == Tail(m) \o args
    IN IF Len(full) \notin {1, 2} THEN Raise(st, "TypeError")
       ELSE
         LET slf == full[1]
             closure == IF Len(full) = 2 THEN full[2] ELSE NoClosure
         IN IF m[1] = "orig"
            THEN [st EXCEPT
                    !.log.orig = Append(@, [self |-> slf, closure |-> closure])]
            ELSE dp_step(slf, closure, st, z, fuel)

\* the optimizer's virtual_step(self), lines 183-184
opt_virtual_step(st, o) ==
  IF ~st.optim[o].virtual_step THEN Raise(st, "AttributeError")
  ELSE IF st.optim[o].privacy_engine # "engine" THEN Raise(st, "AttributeError")
  ELSE virtual_step(st)

\* ------------------------------------------------------ attach and detach
\* attach() validating the module after it has set everything up
attach_validating_last(st, optimizer) ==
  LET done == [st EXCEPT
                 !.clipper = NewClipper(st.self.max_grad_norm),
                 !.self.clipper = @ + 1,
                 !.fed = st.grad_sample,
                 !.optim[optimizer].privacy_engine = "engine",
                 !.optim[optimizer].original_step = GetStep(st, optimizer),
                 !.optim[optimizer].step = <<"dp", optimizer>>,
                 !.optim[optimizer].virtual_step = TRUE,
                 !.self.optimizer = optimizer]
  IN IF ~st.self.module_valid THEN Raise(done, "ValidationError") ELSE done

\* attach() keeping a collaborator the engine already holds
attach_reusing_clipper(st, optimizer) ==
  IF ~st.self.module_valid THEN Raise(st, "ValidationError")
  ELSE
    [st EXCEPT
       !.clipper = IF st.self.clipper = 0
                   THEN NewClipper(st.self.max_grad_norm) ELSE @,
       !.self.clipper = @ + 1,
       !.fed = st.grad_sample,
       !.optim[optimizer].privacy_engine = "engine",
       !.optim[optimizer].original_step = GetStep(st, optimizer),
       !.optim[optimizer].step = MethodType(<<"dp">>, optimizer),
       !.optim[optimizer].virtual_step = TRUE,
       !.self.optimizer = optimizer]

\* PrivacyEngine.attach
attach(st, optimizer) ==
  IF ~st.self.module_valid THEN Raise(st, "ValidationError")
  ELSE
    [st EXCEPT
       !.clipper = NewClipper(st.self.max_grad_norm),
       !.self.clipper = @ + 1,
       !.fed = st.grad_sample,
       !.optim[optimizer].privacy_engine = "engine",
       !.optim[optimizer].original_step = GetStep(st, optimizer),
       !.optim[optimizer].step = MethodType(<<"dp">>, optimizer),
       !.optim[optimizer].virtual_step = TRUE,
       !.self.optimizer = optimizer]

\* PrivacyEngine.detach
detach(st) ==
  IF st.self.optimizer = "absent" THEN Raise(st, "AttributeError")
  ELSE
    LET o == st.self.optimizer
        s1 == close([st EXCEPT !.optim[o].privacy_engine = "None"])
        s2 == [s1 EXCEPT
                 !.optim[o].step = MethodType(s1.optim[o].original_step, o)]
    IN IF ~s2.optim[o].virtual_step THEN Raise(s2, "AttributeError")
       ELSE [s2 EXCEPT !.optim[o].virtual_step = FALSE]

\* ----------------------------------------------------------------- actions
\* the state at the start of a call, with an empty log that remembers the
\* objects as the call found them
Enter(op) ==
  [St EXCEPT
     !.log = [EmptyLog(op) EXCEPT
                !.before = <<[self |-> self, optim |-> optim,
                              clipper |-> clipper, fed |-> fed]>>]]

\* the state a call leaves behind
Leave(r) ==
  /\ self' = r.self
  /\ optim' = r.optim
  /\ clipper' = r.clipper
  /\ grad_sample' = r.grad_sample
  /\ fed' = r.fed
  /\ log' = r.log
  /\ completed' = completed + r.log.step_returns

\* The training loop alternates gradient computation with virtual_step/step:
\* the engine is driven only while it holds an open collaborator that has
\* been given per-sample gradients, pending or accumulated.
Ready ==
  /\ self.clipper # 0
  /\ clipper.closed = 0
  /\ grad_sample # <<>> \/ clipper.aggr_batch_size > 0

\* the mini-batches the data loader yields: one sample, or three (more than
\* the configured batch_size); per-sample gradient magnitudes above, at and
\* below the clip bounds
Batches == {<<2>>, <<3, 1, 2>>}

\* loss.backward() with the collaborator's hooks installed, once the previous
\* batch has been folded in: the batch's per-sample gradients become
\* grad_sample
Backward ==
  /\ self.clipper # 0
  /\ clipper.closed = 0
  /\ grad_sample = <<>>
  /\ \E b \in Batches :
       /\ Len(fed) + Len(b) <= MaxAccum
       /\ grad_sample' = grad_sample \o b
       /\ fed' = fed \o b
  /\ log' = EmptyLog("backward")
  /\ UNCHANGED <<self, optim, clipper, completed>>

\* The optimizers are interchangeable until one is attached: "o1" names the
\* one attached first.
Attach ==
  /\ self.clipper < MaxAttach
  /\ \E o \in Optimizers :
       /\ o = "o1" \/ optim["o1"].privacy_engine # "absent"
       /\ Leave(attach([Enter("attach") EXCEPT !.log.op = <<"attach", o>>], o))

Detach ==
  \E op \in {"detach"} : Leave(detach(Enter(op)))

\* what the generator yields for each parameter's noise tensor; it is not
\* drawn from when noise_multiplier is 0 (line 367)
NoDraws == {[p \in Train |-> 0]}
Draws == IF self.noise_multiplier > 0 THEN [Train -> NoiseDraws] ELSE NoDraws

\* privacy_engine.step() called directly
Step ==
  /\ self.steps < MaxSteps
  /\ Ready
  /\ \E z \in Draws : Leave(step(Enter("step"), z))

\* optimizer.step(*args)
OptStep ==
  /\ self.steps < MaxSteps
  /\ \E o \in Optimizers, args \in ArgLists :
     \E z \in IF optim[o].privacy_engine = "engine" THEN Draws ELSE NoDraws :
       /\ IF optim[o].privacy_engine = "engine" THEN Ready ELSE TRUE
       /\ Leave(Call(GetStep(St, o), args,
                     [Enter("opt_step") EXCEPT !.log.op = <<"opt_step", o, args>>],
                     z, RecursionLimit))

\* privacy_engine.virtual_step() called directly
VirtualStep ==
  /\ Ready
  /\ Leave(virtual_step(Enter("virtual_step")))

\* optimizer.virtual_step()
OptVirtualStep ==
  /\ \E o \in Optimizers :
       /\ IF optim[o].virtual_step /\ optim[o].privacy_engine = "engine"
          THEN Ready ELSE TRUE
       /\ Leave(opt_virtual_step(Enter("opt_virtual_step"), o))

To ==
  /\ \E device \in Devices :
       Leave(to([Enter("to") EXCEPT !.log.op = <<"to", device>>], device))

GetPrivacySpent ==
  /\ \E target_delta \in {<<>>} \cup {<<d>> : d \in Deltas} :
       Leave(get_privacy_spent(
               [Enter("get_privacy_spent") EXCEPT
                  !.log.op = <<"get_privacy_spent", target_delta>>],
               target_delta))

Next ==
  \/ Backward
  \/ Attach
  \/ Detach
  \/ Step
  \/ OptStep
  \/ VirtualStep
  \/ OptVirtualStep
  \/ To
  \/ GetPrivacySpent

Spec == Init /\ [][Next]_vars

\* ------------------------------------------- the seed override on its own
\* The engine constructed for a module on either device, then only moved
\* between devices and re-seeded.
ModuleDevices == TorchDevices
InitSeed ==
  /\ \E a \in Configs, d \in ModuleDevices :
       self = __init__([a EXCEPT !.device = d], UrandomInit)
  /\ optim = [o \in Optimizers |-> NewOptimizer]
  /\ clipper = NoClipper
  /\ grad_sample = <<>>
  /\ fed = <<>>
  /\ completed = 0
  /\ log = EmptyLog("init")

\* manual seeds: 42 and -1
ManualSeeds == {[hi |-> 0, lo |-> <<0, 0, 42>>],
                [hi |-> -1, lo |-> <<65535, 65535, 65535>>]}

\* os.urandom(8): the smallest, the largest and the two middle bit patterns
UrandomDraws == {<<0, 0, 0, 0, 0, 0, 0, 0>>,
                 <<127, 255, 255, 255, 255, 255, 255, 255>>,
                 <<128, 0, 0, 0, 0, 0, 0, 0>>,
                 <<255, 255, 255, 255, 255, 255, 255, 255>>}

\* privacy_engine._set_seed(secure_seed)
SetSeed ==
  /\ \E secure_seed \in {<<>>} \cup {<<s>> : s \in ManualSeeds},
        urandom \in UrandomDraws :
       /\ Leave(_set_seed(
                  [Enter("_set_seed") EXCEPT
                     !.log.op = <<"_set_seed", secure_seed,
                                  IF secure_seed = <<>> THEN urandom ELSE <<>>>>],
                  secure_seed, urandom))

NextSeed ==
  \/ SetSeed
  \/ To

SeedSpec == InitSeed /\ [][NextSeed]_vars

\* ------------------------------------------------------------ properties
\* the objects as the last call found them
Called == log.before # <<>>
B == log.before[1]

\* the last call was privacy_engine.step(), directly or through an
\* optimizer's step, entered exactly once
OneStep == Called /\ log.engine_steps = 1

\* C1: a step() rejected because the accumulated batch size exceeds
\* batch_size leaves steps as it was before the call.
C1_RejectedStepKeepsSteps ==
  (OneStep /\ log.exc = "ValueError") => self.steps = B.self.steps

\* C2: steps always equals the number of step() calls that completed.
C2_StepsCountsCompletedSteps == self.steps = completed

\* C3: a step() rejected for an oversized batch injects no noise: no draw
\* from the generator and no gradient changed from its pre-noise value.
C3_RejectedStepInjectsNoNoise ==
  (Called /\ log.exc = "ValueError") =>
     /\ log.draws = 0
     /\ log.noised = {}
     /\ log.noise_device = {}
     /\ log.grad = <<[p \in Train |->
                        [num |-> log.pre_noise[1][TrainIndex(p)], den |-> 1]]>>

C3_Witness ==
  /\ OneStep /\ log.exc = "ValueError"
  /\ self.noise_multiplier > 0
  /\ log.batch_size > self.batch_size

\* C4: a step() whose accumulated batch size is at most batch_size returns
\* normally, adds noise to every trainable gradient and advances steps by
\* one; it warns exactly when the batch is smaller than batch_size.
C4_SmallBatchStepCompletes ==
  (OneStep /\ log.batch_size >= 1 /\ log.batch_size <= self.batch_size) =>
     /\ log.step_returns = 1
     /\ log.warned <=> log.batch_size < self.batch_size
     /\ log.noised = Train
     /\ self.noise_multiplier > 0 => log.draws = Cardinality(Train)
     /\ self.steps = B.self.steps + 1

C4_Witness ==
  /\ OneStep /\ log.step_returns = 1 /\ log.warned
  /\ log.batch_size < self.batch_size
  /\ log.noised = Train
  /\ self.steps = B.self.steps + 1

\* C5: the cumulative RDP get_privacy_spent uses is k times the one-step
\* RDP at every order, k being the number of completed step() calls.
C5_CumulativeRdpIsCompletedTimesStep ==
  cumulative_rdp(self) =
    [i \in DOMAIN self.alphas |-> FMul(get_renyi_divergence(self)[i], completed)]

\* C6: virtual_step() calls clip_and_accumulate() once and does nothing
\* else: no pre_step(), no noise, steps and every other attribute of the
\* engine and the optimizers unchanged; when it fails nothing was done.
C6_VirtualStepOnlyAccumulates ==
  (Called /\ log.op[1] \in {"virtual_step", "opt_virtual_step"}) =>
     /\ log.pre_calls = 0 /\ log.draws = 0 /\ log.noised = {}
     /\ log.engine_steps = 0 /\ log.grad = <<>>
     /\ self = B.self /\ optim = B.optim
     /\ clipper.closed = B.clipper.closed
     /\ IF log.exc = ""
        THEN /\ log.clip_calls = 1
             /\ grad_sample = <<>>
             /\ clipper.aggr_batch_size = Len(fed)
        ELSE log.clip_calls = 0 /\ clipper = B.clipper

\* virtual_step() has run at least twice since the last step()
C6_Witness ==
  /\ Called /\ log.op[1] = "opt_virtual_step" /\ log.exc = ""
  /\ self.steps = 1
  /\ clipper.aggr_batch_size = 3

\* one step() over the whole batch b, from a drained collaborator
SingleStep(b) ==
  step([self |-> B.self, optim |-> B.optim,
        clipper |-> [B.clipper EXCEPT !.summed = [i \in DOMAIN @ |-> 0],
                                      !.aggr_batch_size = 0],
        grad_sample |-> b, fed |-> b, log |-> EmptyLog("step")],
       CHOOSE z \in NoDraws : TRUE)

\* C7: virtual_step() calls followed by one step() report the batch size and
\* the clipped, summed pre-noise gradient that a single step() over the
\* concatenated batch reports, and advance steps by exactly one.
C7_VirtualBatchingEquivalence ==
  (OneStep /\ log.pre_calls = 1) =>
     /\ log.batch_size = SingleStep(B.fed).log.batch_size
     /\ log.pre_noise = SingleStep(B.fed).log.pre_noise
     /\ log.batch_size = Len(B.fed)
     /\ self.steps = B.self.steps + 1
     /\ clipper.aggr_batch_size = 0

\* two mini-batches of one sample each went through virtual_step(), then
\* step() was called
C7_Witness ==
  /\ OneStep /\ log.step_returns = 1
  /\ log.op[1] = "opt_step"
  /\ B.clipper.aggr_batch_size = 2
  /\ B.fed = <<2, 2>>
  /\ log.batch_size = 2

\* the closure an optimizer's original step sees when called with args
ClosureOf(args) == IF args = <<>> THEN NoClosure ELSE args[1]

\* C8: after attach(optimizer) and detach(), optimizer.step runs only the
\* original update with the caller's arguments, never the engine's step(),
\* and the optimizer has no virtual_step.
C8_DetachRestoresStep ==
  (Called /\ log.op[1] = "opt_step"
     /\ B.optim[log.op[2]].privacy_engine = "None") =>
     /\ log.exc = ""
     /\ log.engine_steps = 0
     /\ log.orig = <<[self |-> log.op[2], closure |-> ClosureOf(log.op[3])]>>
     /\ ~optim[log.op[2]].virtual_step

\* calling optimizer o's step reaches the engine's step()
Drives(o) ==
  \E args \in ArgLists :
     Call(GetStep(St, o), args, Enter("opt_step"),
          CHOOSE z \in NoDraws : TRUE, RecursionLimit).log.engine_steps > 0

\* C9: detach() leaves steps alone, and attach() to an engine that was
\* detached leaves steps alone, installs a newly constructed collaborator
\* (the previous one closed), makes the engine refer to the new optimizer
\* and leaves the detached optimizer detached: it does not drive the engine.
C9_ReattachIsClean ==
  /\ (Called /\ log.op[1] = "detach") => self.steps = B.self.steps
  /\ (Called /\ log.op[1] = "attach" /\ log.exc = ""
        /\ B.self.optimizer # "absent"
        /\ B.optim[B.self.optimizer].privacy_engine = "None") =>
       /\ self.steps = B.self.steps
       /\ B.clipper.closed >= 1
       /\ clipper = NewClipper(self.max_grad_norm)
       /\ self.clipper = B.self.clipper + 1
       /\ self.optimizer = log.op[2]
       /\ optim[log.op[2]].privacy_engine = "engine"
       /\ B.self.optimizer # log.op[2] =>
            /\ optim[B.self.optimizer] = B.optim[B.self.optimizer]
            /\ ~Drives(B.self.optimizer)

\* attach(o1), steps taken and gradients accumulated, detach(), attach(o2)
C9_Witness ==
  /\ Called /\ log.op = <<"attach", "o2">> /\ log.exc = ""
  /\ B.self.optimizer = "o1"
  /\ B.optim["o1"].privacy_engine = "None"
  /\ B.self.steps >= 1
  /\ ~Drives("o1")

\* C10: get_privacy_spent never fails and changes nothing: the engine, the
\* optimizers and the collaborator are as before; its result is determined
\* by the engine's state and target_delta, the engine's own when omitted.
C10_GetPrivacySpentIsPure ==
  (Called /\ log.op[1] = "get_privacy_spent") =>
     /\ log.exc = ""
     /\ self = B.self /\ optim = B.optim /\ clipper = B.clipper
     /\ log.engine_steps = 0 /\ log.clip_calls = 0 /\ log.draws = 0
     /\ log.ret =
          <<tf_get_privacy_spent(
              B.self.alphas, cumulative_rdp(B.self),
              IF log.op[2] = <<>> THEN B.self.target_delta ELSE log.op[2][1])>>

\* queried after detach, with steps taken, with the default target_delta
C10_Witness ==
  /\ Called /\ log.op = <<"get_privacy_spent", <<>>>>
  /\ self.steps >= 1
  /\ self.optimizer # "absent"
  /\ optim[self.optimizer].privacy_engine = "None"
  /\ log.ret # <<>>

\* x <= y on floats; every comparison with nan is false
FLeq(x, y) == x.k # "nan" /\ y.k # "nan" /\ (x = y \/ FLess(x, y))

\* the epsilon get_privacy_spent reports for target_delta td with the
\* engine's parameters and a step count of k
EpsAt(slf, k, td) ==
  tf_get_privacy_spent(slf.alphas, cumulative_rdp([slf EXCEPT !.steps = k]), td).eps

\* the epsilon the conversion gives an all-zero RDP vector: its delta term
DeltaTerm(slf, td) ==
  tf_get_privacy_spent(slf.alphas, [i \in DOMAIN slf.alphas |-> Fin(0)], td).eps

\* the target_delta the last get_privacy_spent call used
UsedDelta == IF log.op[2] = <<>> THEN B.self.target_delta ELSE log.op[2][1]

FracEq(x, y) == x.den # 0 /\ y.den # 0 /\ x.num * y.den = y.num * x.den

\* every engine step() the last call entered returned normally
StepsSucceeded == Called /\ log.engine_steps >= 1 /\ log.step_returns = log.engine_steps

\* C12: with noise_multiplier = 0 a successful step() draws nothing from
\* the generator and leaves every trainable gradient equal to the clipped
\* accumulated gradient pre_step() gave it, for "mean" and "sum" and every
\* reported batch size.
C12_ZeroNoiseIsIdentity ==
  (StepsSucceeded /\ self.noise_multiplier = 0) =>
     /\ log.draws = 0 /\ log.noise_device = {}
     /\ \A p \in Train :
          FracEq(log.grad[1][p], [num |-> log.pre_noise[1][TrainIndex(p)], den |-> 1])

\* a "mean" step over two accumulated samples with noise_multiplier = 0
C12_Witness ==
  /\ OneStep /\ log.step_returns = 1
  /\ self.noise_multiplier = 0 /\ self.loss_reduction = "mean"
  /\ log.batch_size = 2 /\ log.noised = Train
  /\ log.pre_noise = <<<<2, 4>>>>

\* C13: attach() on a module the validator rejects raises before any other
\* effect: no collaborator is constructed, the optimizer gains no
\* back-reference, original step or virtual_step, and its step is unchanged.
C13_AttachFailsFast ==
  (Called /\ log.op[1] = "attach") =>
     /\ ~B.self.module_valid <=> log.exc = "ValidationError"
     /\ log.exc = "ValidationError" =>
          /\ self = B.self /\ self.clipper = 0 /\ clipper = NoClipper
          /\ optim = B.optim
          /\ optim[log.op[2]] = NewOptimizer
          /\ GetStep(St, log.op[2]) = <<"orig", log.op[2]>>

C13_Witness ==
  /\ Called /\ log.op = <<"attach", "o1">> /\ log.exc = "ValidationError"
  /\ ~self.module_valid

\* C14: after a detach() that returns, every attribute attach() added to the
\* optimizer (the back-reference, the preserved original step, virtual_step)
\* is gone and the engine's collaborator has been closed.
C14_DetachRemovesAttributes ==
  (Called /\ log.op[1] = "detach" /\ log.exc = "") =>
     /\ optim[B.self.optimizer].privacy_engine \in {"absent", "None"}
     /\ optim[B.self.optimizer].original_step = <<>>
     /\ ~optim[B.self.optimizer].virtual_step
     /\ clipper.closed >= 1

\* C15: to(device) returns the engine and changes only its device: steps,
\* the accountant's parameters, seed and generator, attachment, optimizers
\* and collaborator are as before; noise tensors a step() generates are
\* created on the engine's current device.
C15_ToReassignsOnlyDevice ==
  /\ (Called /\ log.op[1] = "to") =>
       /\ log.exc = "" /\ log.ret = <<"self">>
       /\ self = [B.self EXCEPT !.device = log.op[2]]
       /\ optim = B.optim /\ clipper = B.clipper
       /\ log.draws = 0 /\ log.engine_steps = 0 /\ log.clip_calls = 0
  /\ (Called /\ log.draws > 0) => log.noise_device = {self.device}

\* a step() after to("cuda") generated its noise on the new device
C15_Witness ==
  /\ OneStep /\ log.step_returns = 1
  /\ log.draws = Cardinality(Train)
  /\ log.noise_device = {"str:cuda"}

\* a 64-bit integer in the signed range
InInt64(v) ==
  /\ v.hi \in -32768..32767
  /\ \A i \in 1..3 : v.lo[i] \in 0..65535

\* C16: _set_seed(s) warns and sets secure_seed to s; _set_seed(None) does
\* not warn and sets secure_seed to a fresh value in the signed 64-bit
\* range; in both cases the generator is re-keyed from secure_seed.
C16_SeedOverrideWarnsAndRekeys ==
  (Called /\ log.op[1] = "_set_seed") =>
     /\ log.warned <=> log.op[2] # <<>>
     /\ log.op[2] # <<>> => self.secure_seed = log.op[2][1]
     /\ log.op[2] = <<>> =>
          /\ self.secure_seed = from_bytes(log.op[3], TRUE)
          /\ InInt64(self.secure_seed)
     /\ self.secure_generator.seed = self.secure_seed
     /\ self.secure_generator.api =
          IF self.device = "cpu" THEN "torch.random" ELSE "torch.cuda"

\* the divisor of the noise term: the accumulated batch size for "mean"
NoiseDivisor == IF self.loss_reduction = "mean" THEN log.batch_size ELSE 1

\* C17: after a successful step() every trainable parameter's gradient is
\* its pre-noise value plus one noise term draw * noise_multiplier * (its
\* own clip value), divided by the accumulated batch size for "mean" and
\* unscaled for "sum"; no other parameter receives noise.
C17_NoisePerParameter ==
  (OneStep /\ log.step_returns = 1) =>
     /\ log.noised = Train /\ DOMAIN log.grad[1] = Train
     /\ self.noise_multiplier > 0 => log.draws = Cardinality(Train)
     /\ \A p \in Train :
          \E draw \in NoiseDraws :
             FracEq(log.grad[1][p],
                    [num |-> log.pre_noise[1][TrainIndex(p)] * NoiseDivisor
                             + draw * self.noise_multiplier
                                    * log.clip_values[TrainIndex(p)],
                     den |-> NoiseDivisor])

\* a "mean" step over one accumulated sample, fewer than the configured
\* batch_size, with per-layer clip values and noise
C17_Witness ==
  /\ OneStep /\ log.step_returns = 1
  /\ self.noise_multiplier = 1 /\ self.loss_reduction = "mean"
  /\ log.batch_size = 1 /\ self.batch_size = 2
  /\ log.clip_values = <<1, 2>>
  /\ log.draws = 2

\* C18: while the engine is attached to an optimizer, a call of its step
\* runs the engine's step() exactly once and then, only if that returned,
\* the original step exactly once with the caller's closure.
C18_OptimizerStepRunsEngineThenOriginal ==
  (Called /\ log.op[1] = "opt_step"
     /\ B.optim[log.op[2]].privacy_engine = "engine") =>
     /\ log.engine_steps = 1
     /\ IF log.step_returns = 1
        THEN /\ log.exc = ""
             /\ log.orig = <<[self |-> log.op[2], closure |-> ClosureOf(log.op[3])]>>
        ELSE log.exc # "" /\ log.orig = <<>>

\* C19: detach() called again without an attach in between raises and
\* leaves the engine, the optimizers and the collaborator (not closed
\* again) as the first detach left them.
C19_SecondDetachFailsClean ==
  (Called /\ log.op[1] = "detach" /\ B.self.optimizer # "absent"
     /\ B.optim[B.self.optimizer].privacy_engine = "None") =>
     /\ log.exc # ""
     /\ self = B.self /\ optim = B.optim /\ clipper = B.clipper

\* C20: at most one optimizer's step drives the engine's step(), and a
\* call of that step runs the engine's step() exactly once and terminates.
C20_AtMostOneDrivingOptimizer ==
  /\ Cardinality({o \in Optimizers : Drives(o)}) <= 1
  /\ (Called /\ log.op[1] = "opt_step" /\ log.engine_steps > 0) =>
       log.engine_steps = 1 /\ log.exc # "RecursionError"

====
